---- MODULE Spec2Model ----
(***************************************************************************)
(* Model of src/dashboard.py (Adikara IoT dashboard): one Streamlit script *)
(* run is the sidebar section (secrets, widgets, refresh button, pump      *)
(* buttons), the KPI section (get_latest_sensor) and the history section   *)
(* (get_sensor_history).  The two reads go through st.cache_data with a    *)
(* time-to-live; the pump buttons call mqtt_publish_pump.                  *)
(*                                                                         *)
(* Time is counted in seconds since the process started.  The sensor_log   *)
(* table is the external store; its rows were written before the process   *)
(* started, so their timestamps are negative.  SUPABASE_URL and            *)
(* SUPABASE_KEY are taken to be valid (otherwise the script stops at       *)
(* line 37 or 41 before any section runs).                                 *)
(***************************************************************************)
EXTENDS Integers, Sequences, FiniteSets

VARIABLES
    now,      \* wall clock, seconds
    db,       \* rows of the sensor_log table (external store)
    cache,    \* st.cache_data: cache key -> entry
    pc,       \* position of the render flow
    quick,    \* state of the "Range" radio widget
    out       \* trace of the section that ran last: what it read, called and
              \* showed, whether the run was started by st.rerun()

vars == <<now, db, cache, pc, quick, out>>

\* ------------------------------------------------------------------ bounds
MaxTime == 6

\* --------------------------------------------------------------- constants
TTL_LATEST == 3
TTL_HISTORY == 6
HISTORY_LIMIT == 5000
FALLBACK_LIMIT == 800
SecondsPerHour == 3600
JAKARTA_TZ == 7
DEFAULT_TOPIC == "adikara-iot/actuator/pump_cmd"

\* ---------------------------------------------------------------- helpers
Min(a, b) == IF a < b THEN a ELSE b

Reverse(s) == [i \in 1..Len(s) |-> s[Len(s) + 1 - i]]

Take(s, n) == SubSeq(s, 1, Min(n, Len(s)))

RECURSIVE OrderAsc(_)
\* rows of a set in ascending ts (ties by id)
OrderAsc(S) ==
    IF S = {} THEN <<>>
    ELSE LET m == CHOOSE r \in S :
                    \A q \in S : r.ts < q.ts \/ (r.ts = q.ts /\ r.id <= q.id)
         IN  <<m>> \o OrderAsc(S \ {m})

OrderDesc(S) == Reverse(OrderAsc(S))

\* ------------------------------------------------------- exceptions, values
NoExc == [type |-> "", status |-> 0, text |-> ""]

\* RuntimeError(f"Supabase HTTP {r.status_code}: {r.text}")
SupabaseHttpError(status, text) ==
    [type |-> "RuntimeError", status |-> status, text |-> text]

NoValue == [kind |-> "", rows |-> <<>>]
PyNone == [kind |-> "None", rows |-> <<>>]
PyDict(row) == [kind |-> "dict", rows |-> <<row>>]
DataFrame(rows) == [kind |-> "DataFrame", rows |-> rows]

\* ------------------------------------------------------------ the backend
\* What the hosted store does with one request.
GatewayOutcomes == {"ok", "unauthorized", "not_modified", "timeout"}

\* PostgREST: filter ts >= gte (when filtered), order, limit.
Backend(q) ==
    LET S == IF q.filtered THEN {r \in db : r.ts >= q.gte} ELSE db
        ordered == IF q.order = "ts.asc" THEN OrderAsc(S) ELSE OrderDesc(S)
    IN  Take(ordered, q.limit)

Respond(q, o) ==
    CASE o = "ok" ->
            [status |-> 200, text |-> "json", parses |-> TRUE, rows |-> Backend(q)]
      [] o = "unauthorized" ->
            [status |-> 401, text |-> "Invalid API key", parses |-> FALSE, rows |-> <<>>]
      [] OTHER ->
            [status |-> 304, text |-> "", parses |-> FALSE, rows |-> <<>>]

\* requests.Response.ok: raise_for_status() raises for 400 <= status < 600
ResponseOk(status) == ~(400 <= status /\ status < 600)

\* ------------------------------------------------------- supabase_select
\* Result of one call: the request it issued with the status that came back
\* (0: no response), and the rows or the exception.
supabase_select(q, o) ==
    IF o = "timeout"
    THEN [requests |-> <<[q |-> q, status |-> 0]>>, rows |-> <<>>,
          exc |-> [type |-> "Timeout", status |-> 0, text |-> ""]]
    ELSE LET r == Respond(q, o)
             sent == <<[q |-> q, status |-> r.status]>>
         IN
         IF ~ResponseOk(r.status)
         THEN [requests |-> sent, rows |-> <<>>,
               exc |-> SupabaseHttpError(r.status, r.text)]
         ELSE IF ~r.parses
         THEN [requests |-> sent, rows |-> <<>>,
               exc |-> [type |-> "JSONDecodeError", status |-> 0, text |-> ""]]
         ELSE [requests |-> sent, rows |-> r.rows, exc |-> NoExc]

LatestQuery ==
    [filtered |-> FALSE, gte |-> 0, order |-> "ts.desc", limit |-> 1]

WindowQuery(since) ==
    [filtered |-> TRUE, gte |-> since, order |-> "ts.asc", limit |-> HISTORY_LIMIT]

\* mutant: another fallback count
FallbackQuery_500 ==
    [filtered |-> FALSE, gte |-> 0, order |-> "ts.desc", limit |-> 500]

FallbackQuery ==
    [filtered |-> FALSE, gte |-> 0, order |-> "ts.desc", limit |-> FALLBACK_LIMIT]

\* ---------------------------------------------------- get_latest_sensor
\* mutant: rows[0] without the test for an empty result
get_latest_sensor_Unchecked(o) ==
    LET r == supabase_select(LatestQuery, o) IN
    IF r.exc # NoExc
    THEN [requests |-> r.requests, value |-> NoValue, exc |-> r.exc]
    ELSE IF r.rows = <<>>
    THEN [requests |-> r.requests, value |-> NoValue,
          exc |-> [type |-> "IndexError", status |-> 0, text |-> ""]]
    ELSE [requests |-> r.requests, value |-> PyDict(r.rows[1]), exc |-> NoExc]

\* The body of the function (what runs on a cache miss).
get_latest_sensor(o) ==
    LET r == supabase_select(LatestQuery, o) IN
    IF r.exc # NoExc
    THEN [requests |-> r.requests, value |-> NoValue, exc |-> r.exc]
    ELSE [requests |-> r.requests,
          value |-> IF r.rows # <<>> THEN PyDict(r.rows[1]) ELSE PyNone,
          exc |-> NoExc]

\* --------------------------------------------------- get_sensor_history
\* pd.to_datetime(..., utc=True).dt.tz_convert(JAKARTA_TZ): same instant,
\* shown with the +7 offset.
ToJakarta(row) == [id |-> row.id, ts |-> row.ts, tz |-> JAKARTA_TZ]

RECURSIVE InsertByTs(_, _)
InsertByTs(row, s) ==
    IF s = <<>> THEN <<row>>
    ELSE IF row.ts < s[1].ts THEN <<row>> \o s
    ELSE <<s[1]>> \o InsertByTs(row, Tail(s))

RECURSIVE sort_values(_)
\* df.sort_values("ts")
sort_values(s) ==
    IF s = <<>> THEN <<>>
    ELSE InsertByTs(s[Len(s)], sort_values(SubSeq(s, 1, Len(s) - 1)))

get_sensor_history(hours, o1, o2) ==
    LET since == now - hours * SecondsPerHour
        r1 == supabase_select(WindowQuery(since), o1)
    IN
    IF r1.exc # NoExc
    THEN [requests |-> r1.requests, value |-> NoValue, exc |-> r1.exc]
    ELSE
      LET r2 == supabase_select(FallbackQuery, o2)
          fell == (r1.rows = <<>>)
          reqs == IF fell THEN r1.requests \o r2.requests ELSE r1.requests
      IN
      IF fell /\ r2.exc # NoExc
      THEN [requests |-> reqs, value |-> NoValue, exc |-> r2.exc]
      ELSE
        LET rows == IF fell THEN Reverse(r2.rows) ELSE r1.rows IN
        IF rows = <<>>
        THEN [requests |-> reqs, value |-> DataFrame(<<>>), exc |-> NoExc]
        ELSE [requests |-> reqs,
              value |-> DataFrame(sort_values([i \in 1..Len(rows) |-> ToJakarta(rows[i])])),
              exc |-> NoExc]

\* ------------------------------------------------------------ st.cache_data
HoursValues == {1, 6, 24, 168}

LatestKey == <<"get_latest_sensor", 0>>

HistoryKey(hours) == <<"get_sensor_history", hours>>

CacheKeys == {LatestKey} \cup {HistoryKey(h) : h \in HoursValues}

NoEntry == [present |-> FALSE, fetched_at |-> 0, value |-> NoValue]

\* mutant: an entry whose age equals the ttl is still served
IsFresh_Inclusive(e, ttl, t) == e.present /\ t - e.fetched_at <= ttl

\* An entry is served while its age is below the function's ttl.
IsFresh(e, ttl, t) == e.present /\ t - e.fetched_at < ttl

\* mutant: a failed run of the function is stored like a result
cache_data_StoresFailure(c, k, ttl, t, body) ==
    IF IsFresh(c[k], ttl, t)
    THEN [cache |-> c, hit |-> TRUE, requests |-> <<>>,
          value |-> c[k].value, exc |-> NoExc]
    ELSE [cache |-> [c EXCEPT ![k] =
                        [present |-> TRUE, fetched_at |-> t, value |-> body.value]],
          hit |-> FALSE, requests |-> body.requests,
          value |-> body.value, exc |-> body.exc]

\* What the decorated function does with a call at time t; `body` is the
\* result the undecorated function gives when it runs.
cache_data(c, k, ttl, t, body) ==
    IF IsFresh(c[k], ttl, t)
    THEN [cache |-> c, hit |-> TRUE, requests |-> <<>>,
          value |-> c[k].value, exc |-> NoExc]
    ELSE IF body.exc # NoExc
    THEN [cache |-> c, hit |-> FALSE, requests |-> body.requests,
          value |-> NoValue, exc |-> body.exc]
    ELSE [cache |-> [c EXCEPT ![k] =
                        [present |-> TRUE, fetched_at |-> t, value |-> body.value]],
          hit |-> FALSE, requests |-> body.requests,
          value |-> body.value, exc |-> NoExc]

\* the ttl each decorator sets
TtlOf(k) == IF k = LatestKey THEN TTL_LATEST ELSE TTL_HISTORY

\* mutant: the clear drops only the entries that have expired
cache_data_clear_expired ==
    [k \in CacheKeys |-> IF IsFresh(cache[k], TtlOf(k), now) THEN cache[k] ELSE NoEntry]

\* st.cache_data.clear()
cache_data_clear == [k \in CacheKeys |-> NoEntry]

\* ----------------------------------------------------------------- secrets
Absent == "<absent>"

\* the values secrets.toml holds in this model: a key left out, a blank
\* value, a value with surrounding blanks; the topic is varied where the
\* publisher can reach it (broker, user and password set)
RawSecrets ==
    {r \in [MQTT_BROKER : {Absent, " set "}, MQTT_USER : {"  ", " set "},
            MQTT_PASS : {"", " set "}, TOPIC_PUMP_CMD : {Absent, "  "}] :
        r.TOPIC_PUMP_CMD = "  " =>
            (r.MQTT_BROKER = " set " /\ r.MQTT_USER = " set " /\ r.MQTT_PASS = " set ")}

\* st.secrets.get(key, default)
secrets_get(v, default) == IF v = Absent THEN default ELSE v

\* str.strip()
strip(s) ==
    CASE s = "  " -> ""
      [] s = " set " -> "set"
      [] OTHER -> s

LoadConfig(raw) ==
    [MQTT_BROKER |-> strip(secrets_get(raw.MQTT_BROKER, "")),
     MQTT_USER |-> strip(secrets_get(raw.MQTT_USER, "")),
     MQTT_PASS |-> strip(secrets_get(raw.MQTT_PASS, "")),
     TOPIC_PUMP_CMD |-> strip(secrets_get(raw.TOPIC_PUMP_CMD, DEFAULT_TOPIC))]

NoConfig ==
    [MQTT_BROKER |-> "", MQTT_USER |-> "", MQTT_PASS |-> "", TOPIC_PUMP_CMD |-> ""]

\* mutant: any() instead of all()
MQTT_OK_Any(cfg) == cfg.MQTT_BROKER # "" \/ cfg.MQTT_USER # "" \/ cfg.MQTT_PASS # ""

MQTT_OK(cfg) == cfg.MQTT_BROKER # "" /\ cfg.MQTT_USER # "" /\ cfg.MQTT_PASS # ""

\* -------------------------------------------------------- mqtt_publish_pump
Commands == {"ON", "OFF", "AUTO"}

\* What the broker side does with one call.
BrokerOutcomes == {"ok", "connect_fails", "publish_fails"}

NoMqtt == [log |-> <<>>, published |-> <<>>, connected |-> FALSE, exc |-> NoExc]

MqttConfigError ==
    [type |-> "RuntimeError", status |-> 0, text |-> "MQTT belum lengkap di Secrets."]

\* mutant: the publish asks for an acknowledged delivery
PublishMessage_Qos1(cfg, cmd) ==
    [topic |-> cfg.TOPIC_PUMP_CMD, payload |-> cmd, qos |-> 1, retain |-> FALSE]

\* client.publish(TOPIC_PUMP_CMD, cmd, qos=0, retain=False)
PublishMessage(cfg, cmd) ==
    [topic |-> cfg.TOPIC_PUMP_CMD, payload |-> cmd, qos |-> 0, retain |-> FALSE]

\* log: the client calls made, in order; published: the messages handed to
\* the client; connected: whether the client is still connected at return.
mqtt_publish_pump(cfg, cmd, o) ==
    IF ~MQTT_OK(cfg)
    THEN [log |-> <<>>, published |-> <<>>, connected |-> FALSE,
          exc |-> MqttConfigError]
    ELSE IF o = "connect_fails"
    THEN [log |-> <<"Client", "username_pw_set", "tls_set", "connect">>,
          published |-> <<>>, connected |-> FALSE,
          exc |-> [type |-> "OSError", status |-> 0, text |-> ""]]
    ELSE IF cfg.TOPIC_PUMP_CMD = ""
    THEN [log |-> <<"Client", "username_pw_set", "tls_set", "connect",
                    "loop_start", "sleep", "publish">>,
          published |-> <<>>, connected |-> TRUE,
          exc |-> [type |-> "ValueError", status |-> 0, text |-> "Invalid topic."]]
    ELSE IF o = "publish_fails"
    THEN [log |-> <<"Client", "username_pw_set", "tls_set", "connect",
                    "loop_start", "sleep", "publish", "wait_for_publish">>,
          published |-> <<PublishMessage(cfg, cmd)>>,
          connected |-> TRUE,
          exc |-> [type |-> "RuntimeError", status |-> 0, text |-> "not published"]]
    ELSE [log |-> <<"Client", "username_pw_set", "tls_set", "connect",
                    "loop_start", "sleep", "publish", "wait_for_publish",
                    "loop_stop", "disconnect">>,
          published |-> <<PublishMessage(cfg, cmd)>>,
          connected |-> FALSE, exc |-> NoExc]

\* ----------------------------------------------------------------- sidebar
QuickOptions == {"1 jam", "6 jam", "24 jam", "7 hari"}

\* the ranges the operator picks in this model
QuickInputs == {"1 jam", "24 jam"}

HistHours(q) ==
    IF q = "1 jam" THEN 1
    ELSE IF q = "6 jam" THEN 6
    ELSE IF q = "24 jam" THEN 24
    ELSE 168

Buttons == {"none", "refresh"} \cup Commands

NoOut ==
    [step |-> "", cfg |-> NoConfig, pressed |-> "none", panel |-> "",
     notice |-> "", mqtt |-> NoMqtt, hit |-> FALSE, requests |-> <<>>,
     value |-> NoValue, exc |-> NoExc, rerun |-> FALSE, dropped |-> {}]

\* ------------------------------------------------------------------- state
OldRow == [id |-> 1, ts |-> 0 - 90000]
MidRow == [id |-> 2, ts |-> 0 - 7200]
EdgeRow == [id |-> 3, ts |-> TTL_LATEST - SecondsPerHour]

InitialTables == {{}, {OldRow, MidRow, EdgeRow}}

Init ==
    /\ now = 0
    /\ db \in InitialTables
    /\ cache = [k \in CacheKeys |-> NoEntry]
    /\ pc = "idle"
    /\ quick = "24 jam"
    /\ out = NoOut

\* The clock advances.
Tick ==
    /\ now < MaxTime
    /\ now' = now + 1
    /\ UNCHANGED <<db, cache, pc, quick, out>>

\* Lines 14-22, 43 and 129-169: a script run starts (widget interaction,
\* autorefresh timer, or the rerun asked by the refresh button): secrets are
\* read, the sidebar is drawn and the pressed button is handled.
Sidebar ==
    /\ pc \in {"idle", "rerun"}
    /\ \E raw \in RawSecrets, q \in QuickInputs :
        LET cfg == LoadConfig(raw)
            offered == {"none", "refresh"} \cup (IF MQTT_OK(cfg) THEN Commands ELSE {})
            panel == IF MQTT_OK(cfg) THEN "buttons" ELSE "warning"
        IN
        \E b \in offered :
        LET base == [NoOut EXCEPT !.step = "sidebar", !.cfg = cfg, !.pressed = b,
                                  !.rerun = (pc = "rerun")]
        IN
        /\ pc = "rerun" => (b = "none" /\ q = quick)
        /\ quick' = q
        /\ IF b = "refresh"
           THEN /\ cache' = cache_data_clear
                /\ pc' = "rerun"
                /\ out' = [base EXCEPT !.dropped =
                              {k \in CacheKeys : IsFresh(cache[k], TtlOf(k), now)}]
           ELSE IF b \in Commands
           THEN \E o \in BrokerOutcomes :
                LET r == mqtt_publish_pump(cfg, b, o) IN
                /\ cache' = cache
                /\ IF r.exc # NoExc
                   THEN /\ pc' = "idle"
                        /\ out' = [base EXCEPT !.panel = panel, !.mqtt = r,
                                               !.exc = r.exc]
                   ELSE /\ pc' = "kpi"
                        /\ out' = [base EXCEPT !.panel = panel, !.mqtt = r,
                                               !.notice = "Terkirim"]
           ELSE /\ cache' = cache
                /\ pc' = "kpi"
                /\ out' = [base EXCEPT !.panel = panel]
    /\ UNCHANGED <<now, db>>

\* Lines 178-191: the KPI section.
Kpi ==
    /\ pc = "kpi"
    /\ \E o \in GatewayOutcomes :
        LET r == cache_data(cache, LatestKey, TtlOf(LatestKey), now, get_latest_sensor(o))
            base == [NoOut EXCEPT !.step = "kpi", !.rerun = out.rerun, !.hit = r.hit,
                                  !.requests = r.requests, !.value = r.value,
                                  !.exc = r.exc]
        IN
        /\ cache' = r.cache
        /\ IF r.exc # NoExc
           THEN /\ pc' = "idle"
                /\ out' = base
           ELSE /\ pc' = "history"
                /\ out' = [base EXCEPT !.notice =
                              IF r.value.kind = "dict" THEN "metrics"
                              ELSE "Belum ada data sensor."]
    /\ UNCHANGED <<now, db, quick>>

\* Lines 196-308: the history section (load, charts, table).
History ==
    /\ pc = "history"
    /\ \E o1 \in GatewayOutcomes, o2 \in GatewayOutcomes :
        LET hist_hours == HistHours(quick)
            r == cache_data(cache, HistoryKey(hist_hours), TtlOf(HistoryKey(hist_hours)), now,
                            get_sensor_history(hist_hours, o1, o2))
            base == [NoOut EXCEPT !.step = "history", !.rerun = out.rerun, !.hit = r.hit,
                                  !.requests = r.requests, !.value = r.value,
                                  !.exc = r.exc]
        IN
        /\ cache' = r.cache
        /\ pc' = "idle"
        /\ IF r.exc # NoExc
           THEN out' = base
           ELSE out' = [base EXCEPT !.notice =
                           IF r.value.rows = <<>> THEN "Data histori sensor kosong."
                           ELSE "charts"]
    /\ UNCHANGED <<now, db, quick>>

Next == Tick \/ Sidebar \/ Kpi \/ History

Spec == Init /\ [][Next]_vars

\* =================================================================== claims
\* the step of the KPI section, and of the history section
KpiStep == pc = "kpi" /\ out'.step = "kpi"

HistoryStep == pc = "history" /\ out'.step = "history"

RefreshStep == out'.step = "sidebar" /\ out'.pressed = "refresh" /\ pc' = "rerun"

\* the key a read step reads, and the time-to-live the claims give it
KeyRead == IF pc = "kpi" THEN LatestKey ELSE HistoryKey(HistHours(quick))

ClaimedTtl(k) == IF k = LatestKey THEN 3 ELSE 6

Served(k) == cache[k].present /\ now - cache[k].fetched_at < ClaimedTtl(k)

\* the requests one execution of the function behind key k issues
OneFetch(k, reqs) ==
    IF k = LatestKey
    THEN Len(reqs) = 1 /\ reqs[1].q.order = "ts.desc" /\ reqs[1].q.limit = 1
    ELSE /\ Len(reqs) \in {1, 2}
         /\ reqs[1].q.filtered
         /\ reqs[1].q.gte = now - k[2] * 3600
         /\ Len(reqs) = 2 => ~reqs[2].q.filtered

\* a read that is served from the entry: no request, the stored payload
ReadHit(k) ==
    /\ out'.hit
    /\ out'.requests = <<>>
    /\ out'.exc = NoExc
    /\ out'.value = cache[k].value
    /\ cache' = cache

\* a read that fetches and stores
ReadMissStored(k) ==
    /\ ~out'.hit
    /\ OneFetch(k, out'.requests)
    /\ out'.exc = NoExc
    /\ cache' = [cache EXCEPT ![k] =
                    [present |-> TRUE, fetched_at |-> now, value |-> out'.value]]

\* a read that fetches and fails
ReadMissFailed(k) ==
    /\ ~out'.hit
    /\ OneFetch(k, out'.requests)
    /\ out'.exc # NoExc
    /\ out'.value = NoValue
    /\ cache' = cache

\* C1 as stated: a read of key k at time t is served from the stored entry,
\* without a request, iff t - fetched_at < ttl (3 latest, 6 history); in
\* every other case it performs one fresh fetch, overwrites the entry with
\* fetched_at = t and returns the new payload.
C1_AsStated ==
    [][(KpiStep \/ HistoryStep) =>
          IF Served(KeyRead) THEN ReadHit(KeyRead) ELSE ReadMissStored(KeyRead)]_vars

\* C1 amended: as C1, but in the other case the one fresh fetch either
\* succeeds (entry overwritten with fetched_at = t, new payload returned) or
\* raises (entry left as it was, nothing returned).
C1_ReadThrough ==
    [][(KpiStep \/ HistoryStep) =>
          IF Served(KeyRead) THEN ReadHit(KeyRead)
          ELSE ReadMissStored(KeyRead) \/ ReadMissFailed(KeyRead)]_vars

\* a read served from the cache, with an expired entry waiting under the key
\* the same run reads next
C1_Witness ==
    /\ out.step = "kpi" /\ out.hit /\ pc = "history"
    /\ cache[HistoryKey(HistHours(quick))].present
    /\ now - cache[HistoryKey(HistHours(quick))].fetched_at >= 6
    /\ cache[LatestKey].fetched_at > 0

\* C2: "refresh now" leaves no entry under any key, whatever its age, and in
\* the run it starts both reads fetch from the gateway.
C2_RefreshClearsAll ==
    [][/\ RefreshStep => \A k \in CacheKeys : ~cache'[k].present
       /\ (out.rerun /\ (KpiStep \/ HistoryStep)) =>
              (~out'.hit /\ OneFetch(KeyRead, out'.requests))]_vars

\* the history read of a run started by the refresh button, in the same
\* second in which entries younger than their ttl were around
C2_Witness ==
    /\ out.step = "history" /\ out.rerun /\ ~out.hit
    /\ cache[LatestKey].present /\ cache[LatestKey].fetched_at = now
    /\ now > 0

\* the state right after the button: fresh entries were dropped
C2_Dropped == pc = "rerun" /\ LatestKey \in out.dropped /\ Cardinality(out.dropped) >= 2

Incomplete(cfg) == cfg.MQTT_BROKER = "" \/ cfg.MQTT_USER = "" \/ cfg.MQTT_PASS = ""

\* C3: with broker, user or password empty, the sidebar offers no command
\* button and makes no client call, and any call of mqtt_publish_pump raises
\* before a client is created, a connect issued or a message published.
C3_NoConnectWhenIncomplete ==
    (out.step = "sidebar" /\ Incomplete(out.cfg)) =>
        /\ out.panel # "buttons"
        /\ out.pressed \notin Commands
        /\ out.mqtt = NoMqtt
        /\ \A c \in Commands, o \in BrokerOutcomes :
              LET r == mqtt_publish_pump(out.cfg, c, o) IN
              r.exc # NoExc /\ r.log = <<>> /\ r.published = <<>> /\ ~r.connected

C3_Witness ==
    /\ out.step = "sidebar" /\ Incomplete(out.cfg) /\ out.cfg.MQTT_BROKER # ""
    /\ out.panel = "warning" /\ pc = "kpi"

\* C4: with broker, user and password set and an empty command topic, a
\* publish fails before any connection to the broker is attempted.
C4_EmptyTopicNoConnect ==
    (/\ out.step = "sidebar" /\ out.pressed \in Commands
     /\ ~Incomplete(out.cfg) /\ out.cfg.TOPIC_PUMP_CMD = "") =>
        (out.exc # NoExc /\ out.mqtt.log = <<>> /\ ~out.mqtt.connected)

\* C5: a failed latest-record read, history read or publish becomes a notice
\* of its section and the run goes on to the sections that follow.
C5_FailureKeepsRendering ==
    /\ (out.step = "sidebar" /\ out.exc # NoExc) => pc = "kpi"
    /\ (out.step = "kpi" /\ out.exc # NoExc) => pc = "history"

\* the rows the window of the history read holds, and all rows
InWindow == {r \in db : r.ts >= now - HistHours(quick) * 3600}

Ids(S) == {r.id : r \in S}

Range(s) == {s[i] : i \in 1..Len(s)}

IsAscending(s) == \A i \in 1..Len(s) : \A j \in i..Len(s) : s[i].ts <= s[j].ts

\* C6: a history fetch whose windowed query (ts >= now - window, ascending,
\* limit 5000) finds no row issues one more query (descending, limit 800, no
\* window) and returns its rows in ascending order; one that finds rows
\* issues no second query and returns the windowed rows in ascending order.
C6_FallbackWhenWindowEmpty ==
    [][(HistoryStep /\ ~out'.hit) =>
        LET reqs == out'.requests
            rows == out'.value.rows
        IN
        /\ reqs[1].q = [filtered |-> TRUE, gte |-> now - HistHours(quick) * 3600,
                        order |-> "ts.asc", limit |-> 5000]
        /\ Len(reqs) = 2 =>
              /\ InWindow = {}
              /\ reqs[1].status = 200
              /\ reqs[2].q.order = "ts.desc" /\ reqs[2].q.limit = 800
              /\ ~reqs[2].q.filtered
        /\ Len(reqs) <= 2
        /\ out'.exc = NoExc =>
              /\ Len(reqs) = 2 <=> InWindow = {}
              /\ IsAscending(rows)
              /\ Len(rows) = Cardinality(Ids(Range(rows)))
              /\ Ids(Range(rows)) = IF InWindow = {} THEN Ids(db) ELSE Ids(InWindow)]_vars

\* a fallback that returned several rows
C6_Witness ==
    /\ out.step = "history" /\ out.exc = NoExc /\ Len(out.requests) = 2
    /\ Len(out.value.rows) >= 2

\* a windowed fetch that returned several rows
C6_WindowedWitness ==
    /\ out.step = "history" /\ out.exc = NoExc /\ Len(out.requests) = 1
    /\ Len(out.value.rows) >= 2

\* C7: a command button that reports success made, in this order and once
\* each: connect (TLS, credentials), the wait, one publish of the command to
\* the configured topic with qos 0 and retain off, the wait for the hand-off,
\* disconnect; no connection is left open; no press publishes twice.
C7_PublishSequence ==
    (out.step = "sidebar" /\ out.pressed \in Commands) =>
        /\ Len(out.mqtt.published) <= 1
        /\ out.exc = NoExc =>
              /\ out.mqtt.log = <<"Client", "username_pw_set", "tls_set", "connect",
                                  "loop_start", "sleep", "publish",
                                  "wait_for_publish", "loop_stop", "disconnect">>
              /\ out.mqtt.published =
                    <<[topic |-> out.cfg.TOPIC_PUMP_CMD, payload |-> out.pressed,
                       qos |-> 0, retain |-> FALSE]>>
              /\ ~out.mqtt.connected
              /\ out.notice = "Terkirim"

C7_Witness ==
    /\ out.step = "sidebar" /\ out.pressed = "AUTO" /\ out.exc = NoExc
    /\ pc = "kpi" /\ out.mqtt.published # <<>>

\* the last request a read step issued
LastRequest == out.requests[Len(out.requests)]

Success(status) == 200 <= status /\ status < 300

\* C8: a response with a non-success status makes select fail with a
\* RemoteError carrying the status and the body, and no rows come back.
C8_RemoteError ==
    (/\ out.step \in {"kpi", "history"} /\ out.requests # <<>>
     /\ LastRequest.status # 0 /\ ~Success(LastRequest.status)) =>
        /\ out.exc.type = "RemoteError"
        /\ out.exc.status = LastRequest.status
        /\ out.value = NoValue

\* C9: with an empty latest-record result the KPI section gets the no-record
\* value, shows the "no data" notice, raises nothing and the run goes on to
\* the history section.
C9_NoDataIndicator ==
    (/\ out.step = "kpi" /\ db = {}
     /\ (out.hit \/ LastRequest.status = 200)) =>
        /\ out.exc = NoExc
        /\ out.value = PyNone
        /\ out.notice = "Belum ada data sensor."
        /\ pc = "history"

C9_Witness ==
    /\ out.step = "kpi" /\ db = {} /\ ~out.hit /\ out.value = PyNone
    /\ pc = "history"

\* C10: a read whose fetch raises leaves every cache entry as it was, and
\* leaves nothing under its key that a later read could be served from.
C10_FailedFetchKeepsCache ==
    [][((KpiStep \/ HistoryStep) /\ out'.exc # NoExc) =>
          /\ cache' = cache
          /\ ~out'.hit
          /\ ~(cache'[KeyRead].present
               /\ now - cache'[KeyRead].fetched_at < ClaimedTtl(KeyRead))]_vars

\* a failed history fetch (the fallback query failed) with an expired entry
\* under its key and a live entry under another key
C10_Witness ==
    /\ out.step = "history" /\ out.exc # NoExc /\ Len(out.requests) = 2
    /\ cache[HistoryKey(HistHours(quick))].present
    /\ cache[LatestKey].present

====
